---- MODULE Spec2Model ----
(***************************************************************************)
(* react-safe-lazy: the reload ledger (ForceReloadStorage) kept in the     *)
(* session storage, and the wrapper createSafeLazy/safeLazy that retries a *)
(* failing import and then either reloads the page or re-throws.           *)
(*                                                                         *)
(* A persisted string is modelled as the sequence of its lexical tokens;   *)
(* JSON.parse is a recursive-descent parser over that sequence and         *)
(* JSON.stringify produces it, so that what is written and what is read    *)
(* back are related by the two conversions and not by construction.        *)
(***************************************************************************)
EXTENDS Integers, Sequences, FiniteSets, TLC

(***************************************************************************)
(* Bounds of the model.                                                    *)
(***************************************************************************)
MaxReloadBudget == 2      \* largest forceReload.maxRetries a factory is given
MaxImportRetries == 2     \* largest importRetries a factory is given
MaxLifetimes == 3         \* page lifetimes of one session
MaxStoredCount == 2       \* largest count found in a foreign persisted value

(***************************************************************************)
(* Program constants.                                                      *)
(***************************************************************************)
defaultStorageKey == "forceReloadedImportFunctions"
customStorageKey == "customKey"
defaultMaxRetries == 1
defaultImportRetries == 0
disabledMaxRetries == 0

StorageKeys == {defaultStorageKey, customStorageKey}

\* importFunction.toString() of the loaders of the application
FunctionStrings == {"f", "g"}
\* what a loader resolves with ({ default: Component }) and rejects with
Modules == {"ModuleA", "ModuleB"}
Errors == {"Error1", "Error2"}
\* { default: () => null }
Placeholder == "NullComponent"

Omitted == "omitted"

(***************************************************************************)
(* Strings as token sequences.                                             *)
(***************************************************************************)
Tok(t, s, n) == [t |-> t, s |-> s, n |-> n]
LB == Tok("[", "", 0)
RB == Tok("]", "", 0)
COMMA == Tok(",", "", 0)
LBRACE == Tok("{", "", 0)
RBRACE == Tok("}", "", 0)
NULLLIT == Tok("null", "", 0)
JUNK == Tok("junk", "", 0)
STR(s) == Tok("str", s, 0)
NUM(n) == Tok("num", "", n)

(***************************************************************************)
(* JSON values.                                                            *)
(***************************************************************************)
JV(type, s, n, elems) == [type |-> type, s |-> s, n |-> n, elems |-> elems]
JNum(n) == JV("number", "", n, <<>>)
JStr(s) == JV("string", s, 0, <<>>)
JNull == JV("null", "", 0, <<>>)
JObj == JV("object", "", 0, <<>>)
JArr(elems) == JV("array", "", 0, elems)

\* a parse result: ok = FALSE is a SyntaxError
PResult(ok, val, next) == [ok |-> ok, val |-> val, next |-> next]
PFail == PResult(FALSE, JNull, 0)

RECURSIVE ParseValue(_, _)
RECURSIVE ParseElements(_, _, _)

\* value := number | string | null | {} | [ value (, value)* ] | [ ]
ParseValue(toks, i) ==
    IF i > Len(toks) THEN PFail
    ELSE LET tk == toks[i] IN
         CASE tk.t = "num" -> PResult(TRUE, JNum(tk.n), i + 1)
           [] tk.t = "str" -> PResult(TRUE, JStr(tk.s), i + 1)
           [] tk.t = "null" -> PResult(TRUE, JNull, i + 1)
           [] tk.t = "{" ->
                IF i + 1 <= Len(toks) /\ toks[i + 1].t = "}"
                THEN PResult(TRUE, JObj, i + 2)
                ELSE PFail
           [] tk.t = "[" ->
                IF i + 1 <= Len(toks) /\ toks[i + 1].t = "]"
                THEN PResult(TRUE, JArr(<<>>), i + 2)
                ELSE ParseElements(toks, i + 1, <<>>)
           [] OTHER -> PFail

\* the elements of a non-empty array, from the first element to the closing ]
\* (the element is parsed once: r ranges over the one result)
ParseElements(toks, i, acc) ==
    LET rest(r) ==
          IF ~r.ok THEN PFail
          ELSE IF r.next > Len(toks) THEN PFail
          ELSE IF toks[r.next].t = "]"
               THEN PResult(TRUE, JArr(Append(acc, r.val)), r.next + 1)
          ELSE IF toks[r.next].t = ","
               THEN ParseElements(toks, r.next + 1, Append(acc, r.val))
          ELSE PFail
    IN CHOOSE result \in {rest(r) : r \in {ParseValue(toks, i)}} : TRUE

\* JSON.parse(text): the whole text is one value
JSONParse(toks) ==
    LET whole(r) == IF r.ok /\ r.next = Len(toks) + 1 THEN r ELSE PFail
    IN CHOOSE result \in {whole(r) : r \in {ParseValue(toks, 1)}} : TRUE

(***************************************************************************)
(* Map<string, number>: the entries in insertion order, keys unique.       *)
(***************************************************************************)
Entry(k, n) == [key |-> k, count |-> n]

MapHas(m, k) == \E i \in 1..Len(m) : m[i].key = k
MapIndex(m, k) == CHOOSE i \in 1..Len(m) : m[i].key = k
\* Map.prototype.get (undefined is reported by MapHas)
MapGet(m, k) == m[MapIndex(m, k)].count
\* stored.get(functionName) ?? 0
MapGetOr0(m, k) == IF MapHas(m, k) THEN MapGet(m, k) ELSE 0
\* a set on a fresh map: the entries of the other keys are lost
MapSet_Alone(m, k, n) == <<Entry(k, n)>>

\* a set that adds an entry without looking for the key
MapSet_Append(m, k, n) == Append(m, Entry(k, n))

\* Map.prototype.set: an existing key keeps its position
MapSet(m, k, n) ==
    IF MapHas(m, k)
    THEN [m EXCEPT ![MapIndex(m, k)] = Entry(k, n)]
    ELSE Append(m, Entry(k, n))
\* Map.prototype.delete
MapDelete(m, k) == SelectSeq(m, LAMBDA e : e.key # k)
MapKeys(m) == {m[i].key : i \in 1..Len(m)}

RECURSIVE MapFromEntries(_, _)
\* new Map(iterable): set() of every [key, value] in order
MapFromEntries(entries, acc) ==
    IF entries = <<>> THEN acc
    ELSE MapFromEntries(Tail(entries),
                        MapSet(acc, Head(entries).elems[1].s, Head(entries).elems[2].n))

(***************************************************************************)
(* sessionStorage: per key, absent (getItem returns null) or a text.       *)
(***************************************************************************)
Absent == [has |-> FALSE, text |-> <<>>]
Text(toks) == [has |-> TRUE, text |-> toks]

RECURSIVE StringifyEntries(_)
\* the comma-separated [key,count] pairs of JSON.stringify([...entries])
StringifyEntries(m) ==
    IF m = <<>> THEN <<>>
    ELSE <<LB, STR(Head(m).key), COMMA, NUM(Head(m).count), RB>>
         \o (IF Tail(m) = <<>> THEN <<>> ELSE <<COMMA>>)
         \o StringifyEntries(Tail(m))

\* JSON.stringify(stored): a Map has no enumerable properties
JSONStringify_Map(m) == <<LBRACE, RBRACE>>

\* JSON.stringify([...stored.entries()])
JSONStringify(m) == <<LB>> \o StringifyEntries(m) \o <<RB>>

\* a filter that does not test the type of value[1]
IsEntry_AnySecond(v) ==
    /\ v.type = "array"
    /\ Len(v.elems) >= 2
    /\ v.elems[1].type = "string"

\* the filter of getMap: an array whose first two elements are a string and a number
IsEntry(v) ==
    /\ v.type = "array"
    /\ Len(v.elems) >= 2
    /\ v.elems[1].type = "string"
    /\ v.elems[2].type = "number"

\* a getMap that rejects the whole array when one element is not an entry
getMapOf_AllOrNothing(stored) ==
    IF ~stored.has \/ stored.text = <<>>
    THEN [map |-> <<>>, threw |-> FALSE]
    ELSE LET r == JSONParse(stored.text) IN
         IF ~r.ok THEN [map |-> <<>>, threw |-> TRUE]
         ELSE IF r.val.type = "array" /\ SelectSeq(r.val.elems, IsEntry) = r.val.elems
              THEN [map |-> MapFromEntries(r.val.elems, <<>>), threw |-> FALSE]
              ELSE [map |-> <<>>, threw |-> FALSE]

\* ForceReloadStorage.getMap on the value getItem returned: the map, and
\* whether JSON.parse threw (caught, logged with console.error)
getMapOf(stored) ==
    IF ~stored.has \/ stored.text = <<>>
    THEN [map |-> <<>>, threw |-> FALSE]
    ELSE LET mapOf(r) ==
               IF ~r.ok THEN [map |-> <<>>, threw |-> TRUE]
               ELSE IF r.val.type = "array"
                    THEN [map |-> MapFromEntries(SelectSeq(r.val.elems, IsEntry), <<>>),
                          threw |-> FALSE]
                    ELSE [map |-> <<>>, threw |-> FALSE]
         \* the text is parsed once: r ranges over the one result
         IN CHOOSE result \in {mapOf(r) : r \in {JSONParse(stored.text)}} : TRUE

\* ForceReloadStorage.getMap
getMap(st, storageKey) == getMapOf(st[storageKey]).map

\* ForceReloadStorage.save
save(st, storageKey, m) == [st EXCEPT ![storageKey] = Text(JSONStringify(m))]

\* an addFunction that forgets the count it read
addFunction_SetsOne(st, storageKey, functionName) ==
    LET stored == getMap(st, storageKey) IN
    save(st, storageKey, MapSet(stored, functionName, 1))

\* an addFunction that counts a reload twice
addFunction_ByTwo(st, storageKey, functionName) ==
    LET stored == getMap(st, storageKey) IN
    save(st, storageKey, MapSet(stored, functionName, MapGetOr0(stored, functionName) + 2))

\* ForceReloadStorage.addFunction
addFunction(st, storageKey, functionName) ==
    LET stored == getMap(st, storageKey) IN
    save(st, storageKey, MapSet(stored, functionName, MapGetOr0(stored, functionName) + 1))

\* a removeFunction that resets the count to 0 and keeps the entry
removeFunction_Zero(st, storageKey, functionName) ==
    LET stored == getMap(st, storageKey) IN
    save(st, storageKey, MapSet(stored, functionName, 0))

\* a removeFunction that clears the whole ledger
removeFunction_Clear(st, storageKey, functionName) ==
    save(st, storageKey, <<>>)

\* ForceReloadStorage.removeFunction
removeFunction(st, storageKey, functionName) ==
    LET stored == getMap(st, storageKey) IN
    save(st, storageKey, MapDelete(stored, functionName))

(***************************************************************************)
(* Configuration.                                                          *)
(***************************************************************************)
NoNumber == -1   \* a numeric option that is not given

\* the argument of createSafeLazy
ConfigInits ==
    [forceReload : {[kind |-> "omitted", maxRetries |-> NoNumber, storageKey |-> Omitted],
                    [kind |-> "false", maxRetries |-> NoNumber, storageKey |-> Omitted]}
                   \cup [kind : {"object"},
                         maxRetries : 0..MaxReloadBudget,
                         storageKey : {Omitted}]
                   \cup [kind : {"object"},
                         maxRetries : {NoNumber, MaxReloadBudget},
                         storageKey : {customStorageKey}],
     importRetries : {NoNumber} \cup 1..MaxImportRetries]

\* createConfig, and the storage key the ledger of the factory is bound to
createConfig(init) ==
    [maxRetries |->
        IF init.forceReload.kind = "object"
        THEN (IF init.forceReload.maxRetries # NoNumber
              THEN init.forceReload.maxRetries ELSE defaultMaxRetries)
        ELSE IF init.forceReload.kind = "false" THEN disabledMaxRetries
        ELSE defaultMaxRetries,
     storageKey |->
        IF init.forceReload.kind = "object" /\ init.forceReload.storageKey # Omitted
        THEN init.forceReload.storageKey ELSE defaultStorageKey,
     importRetries |->
        IF init.importRetries # NoNumber THEN init.importRetries ELSE defaultImportRetries]

(***************************************************************************)
(* Values the session storage may hold when the first page is opened:      *)
(* nothing, texts the ledger wrote, and texts it did not write.            *)
(***************************************************************************)
WellFormedMaps ==
    {<<>>}
    \cup {<<Entry(k, n)>> : k \in FunctionStrings, n \in 1..MaxStoredCount}
    \cup {<<Entry("f", n), Entry("g", 1)>> : n \in 1..MaxStoredCount}
    \cup {<<Entry("g", 2), Entry("f", n)>> : n \in 1..MaxStoredCount}

ForeignTexts ==
    { <<>>,                                                  \* the empty string
      <<JUNK>>,                                              \* invalid
      <<LBRACE, RBRACE>>,                                    \* {}
      <<NUM(1)>>,                                            \* 1
      <<LB, LB, STR("f"), COMMA, NUM(1), RB>>,               \* [["f",1]  (cut short)
      <<LB, NUM(5), RB>>,                                    \* [5]
      <<LB, LB, STR("f"), RB, RB>>,                          \* [["f"]]
      <<LB, LB, STR("f"), COMMA, STR("x"), RB, RB>>,         \* [["f","x"]]
      <<LB, LB, STR("f"), COMMA, NUM(1), RB, COMMA, NUM(5), RB>>,   \* [["f",1],5]
      <<LB, NULLLIT, COMMA, LB, STR("g"), COMMA, NUM(1), RB, RB>>,  \* [null,["g",1]]
      <<LB, LB, STR("f"), COMMA, STR("x"), RB, COMMA,
            LB, STR("g"), COMMA, NUM(2), RB, RB>>,           \* [["f","x"],["g",2]]
      <<LB, LB, STR("f"), COMMA, NUM(1), RB, COMMA,
            LB, STR("f"), COMMA, NUM(2), RB, RB>>,           \* [["f",1],["f",2]]
      <<LB, LB, STR("f"), COMMA, NUM(0), RB, RB>>,           \* [["f",0]]
      <<LB, LB, STR("f"), COMMA, NUM(-1), RB, RB>> }         \* [["f",-1]]

\* nothing, or a text the ledger wrote
LedgerStored == {Absent} \cup {Text(JSONStringify(m)) : m \in WellFormedMaps}

InitStored == LedgerStored \cup {Text(t) : t \in ForeignTexts}

(***************************************************************************)
(* State.                                                                  *)
(***************************************************************************)
Loads == {1, 2}      \* the lazy components a page may render

VARIABLES
    storage,        \* sessionStorage: storage key -> Absent or a text (survives reloads)
    configInit,     \* the argument createSafeLazy was called with
    mounted,        \* the lazy components rendered in every page lifetime
    functionString, \* per load: importFunction.toString()
    pc,             \* per load: where its lazy callback stands
    retried,        \* per load: the counter of safeLazy's closure
    pageCalls,      \* per load: calls of importFunction in this page lifetime
    totalCalls,     \* per load: calls of importFunction in the session
    caught,         \* per load: the error of the latest rejected attempt
    imported,       \* per load: what tryImport resolved with
    outcome,        \* per load: how the promise given to React.lazy settled
    pageReloads,    \* calls of window.location.reload in this page lifetime
    totalReloads,   \* calls of window.location.reload in the session
    lifetime,       \* the page lifetime of the session, from 1
    storage0,       \* history: the storage when the session started
    pageStorage,    \* history: the storage when this page lifetime started
    lastRejected,   \* history, per load: the error of the loader's latest rejection in this page
    allRejected,    \* history, per load: every attempt of the session was rejected
    previous,       \* history, per load: the outcome in the previous page lifetime
    lastOp,         \* history: the latest direct call of a ForceReloadStorage method
    before,         \* history: the storage before that call
    loader,         \* per load: how its importFunction behaves (any, rejects, resolves)
    inFlight,       \* per load: calls of importFunction that have not settled
    pageRejections, \* history, per load: rejected attempts in this page lifetime
    effects,        \* history: the side effects of this page lifetime, in order
    sinceRemoval    \* history, per key: reloads the factory triggered for the key
                    \* since it last removed the key

vars == <<storage, configInit, mounted, functionString, pc, retried, pageCalls,
          totalCalls, caught, imported, outcome, pageReloads, totalReloads,
          lifetime, storage0, pageStorage, lastRejected, allRejected, previous,
          lastOp, before, loader, inFlight, pageRejections, effects, sinceRemoval>>

ledgerHistory == <<lastOp, before>>

\* a side effect of the lazy callback of a load
Effect(kind, l) == [kind |-> kind, load |-> l]
\* console.error(error) in the catch block of tryImport
LogImportError(l) == Effect("console.error(import)", l)
\* console.error(error) in the catch block of getMap
LogParseError(l) == Effect("console.error(parse)", l)
\* sessionStorage.setItem in save
SetItem(l) == Effect("setItem", l)
\* window.location.reload()
Reload(l) == Effect("reload", l)

\* return { default: () => null }
ResolvePlaceholder(l) == Effect("return placeholder", l)

\* a counter of the session that stops counting at cap
Bump(n, cap) == IF n < cap THEN n + 1 ELSE n
MaxTotalCalls == MaxLifetimes * (MaxImportRetries + 1)
MaxTotalReloads == MaxLifetimes * 2

\* const { forceReload, importRetries } = createConfig(config)
config == createConfig(configInit)
\* a factory whose ledger ignores the configured storage key
reloadStorageKey_Default == defaultStorageKey
\* new ForceReloadStorage(forceReload.storageKey)
reloadStorageKey == config.storageKey

Pending == [kind |-> "pending", v |-> ""]
Resolved(v) == [kind |-> "resolved", v |-> v]
Rejected(e) == [kind |-> "rejected", v |-> e]

\* how a load ended: pending, loaded (the loader's module), reloading (the
\* placeholder) or rejected
settledAs(o) ==
    IF o.kind = "resolved"
    THEN (IF o.v = Placeholder THEN "reloading" ELSE "loaded")
    ELSE o.kind

NoError == "none"
NoModule == "none"

\* the ledger count the reload decision reads for a key
ledgerCount(st, key) == MapGetOr0(getMap(st, reloadStorageKey), key)

Op(op, storageKey, functionName) ==
    [op |-> op, storageKey |-> storageKey, functionName |-> functionName]
NoOp == Op("none", "", "")

PageStart ==
    /\ pc = [l \in Loads |-> "idle"]
    /\ inFlight = [l \in Loads |-> 0]
    /\ pageRejections = [l \in Loads |-> 0]
    /\ effects = <<>>
    /\ sinceRemoval = [k \in FunctionStrings |-> 0]
    /\ retried = [l \in Loads |-> 0]
    /\ pageCalls = [l \in Loads |-> 0]
    /\ caught = [l \in Loads |-> NoError]
    /\ imported = [l \in Loads |-> NoModule]
    /\ outcome = [l \in Loads |-> Pending]
    /\ pageReloads = 0

InitCommon ==
    /\ configInit \in ConfigInits
    /\ \E own \in InitStored, other \in {Absent, Text(JSONStringify(<<Entry("f", 1)>>))} :
         \* another ledger has written under the other key only beside a value
         \* the factory's own ledger could have written
         /\ other = Absent \/ own \in LedgerStored
         /\ storage = [k \in StorageKeys |-> IF k = reloadStorageKey THEN own ELSE other]
    /\ storage0 = storage
    /\ pageStorage = storage
    /\ lastRejected = [l \in Loads |-> NoError]
    /\ PageStart
    /\ totalCalls = [l \in Loads |-> 0]
    /\ totalReloads = 0
    /\ lifetime = 1
    /\ allRejected = [l \in Loads |-> TRUE]
    /\ previous = [l \in Loads |-> "pending"]
    /\ lastOp = NoOp
    /\ before = storage

\* one lazy component per page
Init ==
    /\ InitCommon
    /\ mounted = {1}
    /\ functionString = [l \in Loads |-> "f"]
    /\ loader = [l \in Loads |-> "any"]

(***************************************************************************)
(* Actions.                                                                *)
(***************************************************************************)
\* React renders the lazy component: the callback given to lazy() runs
\* tryImport, which calls importFunction
Render(l) ==
    /\ l \in mounted
    /\ UNCHANGED ledgerHistory
    /\ pc[l] = "idle"
    /\ pc' = [pc EXCEPT ![l] = "importing"]
    /\ pageCalls' = [pageCalls EXCEPT ![l] = @ + 1]
    /\ totalCalls' = [totalCalls EXCEPT ![l] = Bump(@, MaxTotalCalls)]
    /\ inFlight' = [inFlight EXCEPT ![l] = @ + 1]
    /\ UNCHANGED <<loader, pageRejections, effects, sinceRemoval>>
    /\ UNCHANGED <<storage, configInit, mounted, functionString, retried, caught,
                   imported, outcome, pageReloads, totalReloads, lifetime,
                   storage0, pageStorage, lastRejected, allRejected, previous>>

\* the attempt in flight resolves: tryImport returns the module
ImportResolves(l, module) ==
    /\ pc[l] = "importing"
    /\ loader[l] # "rejects"
    /\ UNCHANGED ledgerHistory
    /\ inFlight' = [inFlight EXCEPT ![l] = @ - 1]
    /\ UNCHANGED <<loader, pageRejections, effects, sinceRemoval>>
    /\ pc' = [pc EXCEPT ![l] = "imported"]
    /\ imported' = [imported EXCEPT ![l] = module]
    /\ allRejected' = [allRejected EXCEPT ![l] = FALSE]
    /\ UNCHANGED <<storage, configInit, mounted, functionString, retried, pageCalls,
                   totalCalls, caught, outcome, pageReloads, totalReloads, lifetime,
                   storage0, pageStorage, lastRejected, previous>>

\* a retry test that allows one attempt too many
tryAgain_OneMore(l) == retried[l] <= config.importRetries

\* a retry test that never retries
tryAgain_Never(l) == FALSE

\* what the catch block of tryImport does with the error of the attempt
\* in flight: TRUE to call importFunction again, FALSE to throw
tryAgain(l) == retried[l] < config.importRetries

\* an outer frame of tryImport throwing the error it caught itself
rethrown_Outer(l, error) == IF caught[l] = NoError THEN error ELSE caught[l]

\* throw error: what tryImport throws when the attempt that rejected with
\* error was the last one allowed
rethrown(l, error) == error

\* a catch block that logs only the errors it retries after
tryImportEffects_NotLast(l) == IF tryAgain(l) THEN <<LogImportError(l)>> ELSE <<>>

\* the effects of the catch block of tryImport: console.error(error)
tryImportEffects(l) == <<LogImportError(l)>>

\* a catch block that starts the next attempt twice, awaiting one
callsOnCatch_Twice(l) == IF tryAgain(l) THEN 2 ELSE 0

\* the calls of importFunction the catch block of tryImport makes
callsOnCatch(l) == IF tryAgain(l) THEN 1 ELSE 0

\* the attempt in flight rejects: the catch block of tryImport
ImportRejects(l, error) ==
    /\ pc[l] = "importing"
    /\ loader[l] # "resolves"
    /\ UNCHANGED ledgerHistory
    /\ lastRejected' = [lastRejected EXCEPT ![l] = error]
    /\ pageRejections' = [pageRejections EXCEPT ![l] = @ + 1]
    /\ effects' = effects \o tryImportEffects(l)
    /\ inFlight' = [inFlight EXCEPT ![l] = @ - 1 + callsOnCatch(l)]
    /\ UNCHANGED <<loader, sinceRemoval>>
    /\ IF tryAgain(l)
       THEN /\ caught' = [caught EXCEPT ![l] = error]
            /\ retried' = [retried EXCEPT ![l] = @ + 1]
            /\ pageCalls' = [pageCalls EXCEPT ![l] = @ + callsOnCatch(l)]
            /\ totalCalls' = [totalCalls EXCEPT ![l] = Bump(@, MaxTotalCalls)]
            /\ UNCHANGED pc
       ELSE /\ caught' = [caught EXCEPT ![l] = rethrown(l, error)]
            /\ pc' = [pc EXCEPT ![l] = "exhausted"]
            /\ UNCHANGED <<retried, pageCalls, totalCalls>>
    /\ UNCHANGED <<storage, configInit, mounted, functionString, imported, outcome,
                   pageReloads, totalReloads, lifetime, storage0, pageStorage,
                   allRejected, previous>>

\* the effects of a getMap of the factory's ledger: console.error when
\* JSON.parse throws
getMapEffects(l) ==
    IF getMapOf(storage[reloadStorageKey]).threw THEN <<LogParseError(l)>> ELSE <<>>

\* the effects of removeFunction: getMap, then save
removeFunctionEffects(l) == getMapEffects(l) \o <<SetItem(l)>>

\* the effects of addFunction: getMap, then save
addFunctionEffects(l) == getMapEffects(l) \o <<SetItem(l)>>

\* a reload branch that reloads before it writes the count
reloadBranchEffects_ReloadFirst(l) ==
    getMapEffects(l) \o <<Reload(l)>> \o addFunctionEffects(l)
    \o <<ResolvePlaceholder(l)>>

\* the effects of the reload branch: the count is read, addFunction, then
\* window.location.reload(), then return { default: () => null }
reloadBranchEffects(l) ==
    getMapEffects(l) \o addFunctionEffects(l) \o <<Reload(l)>>
    \o <<ResolvePlaceholder(l)>>

\* a success branch that clears the ledger entry whatever the configuration
reloadEnabled_Always == TRUE

\* forceReload.maxRetries > 0
reloadEnabled == config.maxRetries > 0

\* the branch of the lazy callback after tryImport returned
OnImported(l) ==
    /\ pc[l] = "imported"
    /\ UNCHANGED ledgerHistory
    /\ storage' = IF reloadEnabled
                  THEN removeFunction(storage, reloadStorageKey, functionString[l])
                  ELSE storage
    /\ effects' = effects \o (IF reloadEnabled THEN removeFunctionEffects(l) ELSE <<>>)
    /\ sinceRemoval' = IF reloadEnabled
                       THEN [sinceRemoval EXCEPT ![functionString[l]] = 0]
                       ELSE sinceRemoval
    /\ UNCHANGED <<loader, inFlight, pageRejections>>
    /\ outcome' = [outcome EXCEPT ![l] = Resolved(imported[l])]
    /\ pc' = [pc EXCEPT ![l] = "settled"]
    /\ UNCHANGED <<configInit, mounted, functionString, retried, pageCalls, totalCalls,
                   caught, imported, pageReloads, totalReloads, lifetime, storage0,
                   pageStorage, lastRejected, allRejected, previous>>

\* a reload decision that allows one reload too many
shouldReload_OffByOne(st, key) == ledgerCount(st, key) <= config.maxRetries

\* the reload decision of the catch block of the lazy callback
shouldReload(st, key) == ledgerCount(st, key) < config.maxRetries

\* the catch block of the lazy callback after tryImport threw
OnExhausted(l) ==
    /\ pc[l] = "exhausted"
    /\ UNCHANGED ledgerHistory
    /\ IF shouldReload(storage, functionString[l])
       THEN /\ storage' = addFunction(storage, reloadStorageKey, functionString[l])
            /\ pageReloads' = pageReloads + 1
            /\ totalReloads' = Bump(totalReloads, MaxTotalReloads)
            /\ outcome' = [outcome EXCEPT ![l] = Resolved(Placeholder)]
            /\ effects' = effects \o reloadBranchEffects(l)
            /\ sinceRemoval' = [sinceRemoval EXCEPT ![functionString[l]] =
                                   Bump(@, MaxTotalReloads)]
       ELSE /\ outcome' = [outcome EXCEPT ![l] = Rejected(caught[l])]
            /\ effects' = effects \o getMapEffects(l)
            /\ UNCHANGED <<storage, pageReloads, totalReloads, sinceRemoval>>
    /\ UNCHANGED <<loader, inFlight, pageRejections>>
    /\ pc' = [pc EXCEPT ![l] = "settled"]
    /\ UNCHANGED <<configInit, mounted, functionString, retried, pageCalls, totalCalls,
                   caught, imported, lifetime, storage0, pageStorage, lastRejected,
                   allRejected, previous>>

\* a new page lifetime: the module is evaluated again, safeLazy wraps the
\* loaders again, the session storage is kept
NewPage ==
    /\ UNCHANGED ledgerHistory
    /\ pc' = [l \in Loads |-> "idle"]
    /\ retried' = [l \in Loads |-> 0]
    /\ pageCalls' = [l \in Loads |-> 0]
    /\ caught' = [l \in Loads |-> NoError]
    /\ imported' = [l \in Loads |-> NoModule]
    /\ outcome' = [l \in Loads |-> Pending]
    /\ pageReloads' = 0
    /\ lifetime' = Bump(lifetime, MaxLifetimes)
    /\ inFlight' = [l \in Loads |-> 0]
    /\ pageRejections' = [l \in Loads |-> 0]
    /\ effects' = <<>>
    /\ UNCHANGED <<loader, sinceRemoval>>
    /\ previous' = [l \in Loads |-> settledAs(outcome[l])]
    /\ pageStorage' = storage
    /\ lastRejected' = [l \in Loads |-> NoError]
    /\ UNCHANGED <<storage, configInit, mounted, functionString, totalCalls,
                   totalReloads, storage0, allRejected>>

\* the reload requested by window.location.reload() takes place
PageReload ==
    /\ pageReloads > 0
    /\ lifetime < MaxLifetimes
    /\ NewPage

\* the user opens the page again in the same session after every load settled
Revisit ==
    /\ pageReloads = 0
    /\ lifetime < MaxLifetimes
    /\ \A l \in mounted : pc[l] = "settled"
    /\ NewPage

Next ==
    \/ \E l \in Loads : Render(l)
    \/ \E l \in Loads, module \in Modules : ImportResolves(l, module)
    \/ \E l \in Loads, error \in Errors : ImportRejects(l, error)
    \/ \E l \in Loads : OnImported(l)
    \/ \E l \in Loads : OnExhausted(l)
    \/ PageReload
    \/ Revisit

Spec == Init /\ [][Next]_vars

TypeOK ==
    /\ \A l \in Loads : pc[l] \in {"idle", "importing", "imported", "exhausted", "settled"}
    /\ \A l \in Loads : retried[l] \in 0..config.importRetries
    /\ lifetime \in 1..MaxLifetimes

(***************************************************************************)
(* Several lazy components of one factory on a page: every page lifetime   *)
(* renders both loads, whose loaders have the same source text or not, and *)
(* whose lazy callbacks run in any interleaving.  The factory uses the     *)
(* default storage key.                                                    *)
(***************************************************************************)
MultiConfigInits ==
    [forceReload : [kind : {"object"}, maxRetries : 0..MaxReloadBudget,
                    storageKey : {Omitted}],
     importRetries : {NoNumber}]

MultiStored ==
    {Absent}
    \cup {Text(JSONStringify(m)) :
            m \in {<<Entry("f", 1)>>, <<Entry("g", 1), Entry("f", 1)>>}}

InitMulti ==
    /\ InitCommon
    /\ configInit \in MultiConfigInits
    /\ storage[defaultStorageKey] \in MultiStored
    /\ storage[customStorageKey] = Absent
    /\ mounted = Loads
    /\ functionString \in {[l \in Loads |-> "f"],
                           [l \in Loads |-> IF l = 1 THEN "f" ELSE "g"]}
    /\ loader = [l \in Loads |-> "any"]

SpecMulti == InitMulti /\ [][Next]_vars

(***************************************************************************)
(* A session without an end: every page lifetime renders both loads, each  *)
(* loader rejects every call or resolves every call, and a requested       *)
(* reload starts the next lifetime.  The counters of the session stop      *)
(* counting at their caps.  The event loop runs every callback that is     *)
(* ready and the browser performs a reload that was requested: weak        *)
(* fairness of each step of a load and of the reload.  Opening the page    *)
(* again is left to the user.                                              *)
(***************************************************************************)
InitLive ==
    /\ InitCommon
    /\ configInit \in MultiConfigInits
    /\ storage = [k \in StorageKeys |-> Absent]
    /\ mounted = Loads
    /\ functionString \in {[l \in Loads |-> "f"],
                           [l \in Loads |-> IF l = 1 THEN "f" ELSE "g"]}
    /\ loader \in [Loads -> {"rejects", "resolves"}]

\* the reload requested by window.location.reload() takes place
PageReloadLive ==
    /\ pageReloads > 0
    /\ NewPage

\* the user opens the page again after every load settled without a reload
RevisitLive ==
    /\ pageReloads = 0
    /\ \A l \in mounted : pc[l] = "settled"
    /\ NewPage

NextLive ==
    \/ \E l \in Loads : Render(l)
    \/ \E l \in Loads, module \in Modules : ImportResolves(l, module)
    \/ \E l \in Loads, error \in Errors : ImportRejects(l, error)
    \/ \E l \in Loads : OnImported(l)
    \/ \E l \in Loads : OnExhausted(l)
    \/ PageReloadLive
    \/ RevisitLive

\* the step of a load that is ready: at most one of them is enabled at a time
LoadStep(l) ==
    \/ Render(l)
    \/ \E module \in Modules : ImportResolves(l, module)
    \/ \E error \in Errors : ImportRejects(l, error)
    \/ OnImported(l)
    \/ OnExhausted(l)

FairLive ==
    /\ \A l \in Loads : WF_vars(LoadStep(l))
    /\ WF_vars(PageReloadLive)

SpecLive == InitLive /\ [][NextLive]_vars /\ FairLive

(***************************************************************************)
(* The ledger on its own: a caller holding a ForceReloadStorage of some    *)
(* storage key calls addFunction and removeFunction on whatever the        *)
(* session storage holds.                                                  *)
(***************************************************************************)
InitLedger ==
    /\ configInit = [forceReload |-> [kind |-> "omitted", maxRetries |-> NoNumber,
                                      storageKey |-> Omitted],
                     importRetries |-> NoNumber]
    /\ storage \in [StorageKeys -> InitStored]
    /\ storage0 = [k \in StorageKeys |-> Absent]     \* no page is opened:
    /\ pageStorage = [k \in StorageKeys |-> Absent]  \* the wrapper's history stays empty
    /\ lastRejected = [l \in Loads |-> NoError]
    /\ PageStart
    /\ totalCalls = [l \in Loads |-> 0]
    /\ totalReloads = 0
    /\ lifetime = 1
    /\ allRejected = [l \in Loads |-> TRUE]
    /\ previous = [l \in Loads |-> "pending"]
    /\ lastOp = NoOp
    /\ before = storage
    /\ mounted = {}
    /\ functionString = [l \in Loads |-> "f"]
    /\ loader = [l \in Loads |-> "any"]

wrapperVars == <<configInit, mounted, functionString, pc, retried, pageCalls,
                 totalCalls, caught, imported, outcome, pageReloads, totalReloads,
                 lifetime, storage0, pageStorage, lastRejected, allRejected, previous,
                 loader, inFlight, pageRejections, effects, sinceRemoval>>

\* new ForceReloadStorage(storageKey).addFunction(functionName)
LedgerAdd(storageKey, functionName) ==
    /\ MapGetOr0(getMap(storage, storageKey), functionName) <= MaxStoredCount
    /\ storage' = addFunction(storage, storageKey, functionName)
    /\ lastOp' = Op("addFunction", storageKey, functionName)
    /\ before' = storage
    /\ UNCHANGED wrapperVars

\* new ForceReloadStorage(storageKey).removeFunction(functionName)
LedgerRemove(storageKey, functionName) ==
    /\ storage' = removeFunction(storage, storageKey, functionName)
    /\ lastOp' = Op("removeFunction", storageKey, functionName)
    /\ before' = storage
    /\ UNCHANGED wrapperVars

NextLedger ==
    \/ \E storageKey \in StorageKeys, functionName \in FunctionStrings :
         LedgerAdd(storageKey, functionName)
    \/ \E storageKey \in StorageKeys, functionName \in FunctionStrings :
         LedgerRemove(storageKey, functionName)

SpecLedger == InitLedger /\ [][NextLedger]_vars

(***************************************************************************)
(* Vocabulary of the properties.                                           *)
(***************************************************************************)
\* the page renders one lazy component, the one of loader f
TheLoad == CHOOSE l \in Loads : \A k \in Loads : l <= k
settled == pc[TheLoad] = "settled"
reloadBudget == config.maxRetries
\* the ledger of the factory as read now, and as it was when the session started
ledgerNow == getMap(storage, reloadStorageKey)
ledgerAtStart == getMap(storage0, reloadStorageKey)
keyOfLoad == functionString[TheLoad]
\* retries were exhausted in this page lifetime: tryImport threw
exhaustedNow == settled /\ imported[TheLoad] = NoModule

(***************************************************************************)
(* C1. A loader that fails on every call, rendered once per page lifetime  *)
(* from an empty ledger with reload budget m: the page lifetimes 1..m each *)
(* trigger exactly one reload and leave the count of the loader's key at   *)
(* the number of the lifetime; from lifetime m+1 on no reload is triggered *)
(* and the load rejects with the loader's error, the count staying at m.   *)
(***************************************************************************)
C1_Case == ledgerAtStart = <<>> /\ allRejected[TheLoad] /\ mounted = {TheLoad}

C1_ReloadsThenRethrows ==
    C1_Case =>
      /\ ~settled =>
           /\ pageReloads = 0
           /\ totalReloads = (IF lifetime - 1 < reloadBudget THEN lifetime - 1 ELSE reloadBudget)
           /\ ledgerCount(storage, keyOfLoad) = totalReloads
      /\ (settled /\ lifetime <= reloadBudget) =>
           /\ outcome[TheLoad] = Resolved(Placeholder)
           /\ pageReloads = 1
           /\ totalReloads = lifetime
           /\ MapHas(ledgerNow, keyOfLoad)
           /\ MapGet(ledgerNow, keyOfLoad) = lifetime
      /\ (settled /\ lifetime > reloadBudget) =>
           /\ outcome[TheLoad].kind = "rejected"
           /\ outcome[TheLoad].v \in Errors
           /\ pageReloads = 0
           /\ totalReloads = reloadBudget
           /\ ledgerCount(storage, keyOfLoad) = reloadBudget

\* budget 2: two reloads, and the third page lifetime has rejected
C1_Witness ==
    /\ C1_Case
    /\ reloadBudget = 2
    /\ lifetime = 3
    /\ settled
    /\ outcome[TheLoad].kind = "rejected"
    /\ totalReloads = 2

\* the default configuration: one reload, then the error is thrown
C1_WitnessDefault ==
    /\ C1_Case
    /\ configInit.forceReload.kind = "omitted"
    /\ lifetime = 2
    /\ settled
    /\ outcome[TheLoad].kind = "rejected"
    /\ totalReloads = 1

(***************************************************************************)
(* C2. A factory created with forceReload: false never triggers a page     *)
(* reload, and every wrapped load whose retries are exhausted rejects with *)
(* the loader's error.                                                     *)
(***************************************************************************)
reloadDisabled == configInit.forceReload.kind = "false"

C2_DisabledNeverReloads ==
    reloadDisabled =>
      /\ totalReloads = 0
      /\ exhaustedNow =>
           /\ outcome[TheLoad].kind = "rejected"
           /\ outcome[TheLoad].v = lastRejected[TheLoad]

(***************************************************************************)
(* C3. With importRetries = r, a load whose loader resolves after at most  *)
(* r rejections resolves with exactly the value the loader resolved with,  *)
(* the loader having been called once more than it rejected (r+1 times     *)
(* when it rejected r times), and no page reload is triggered and no       *)
(* ledger entry is added or raised: every entry read afterwards was there  *)
(* before with the same count.                                             *)
(***************************************************************************)
importRetries == config.importRetries
loadedNow == settled /\ imported[TheLoad] # NoModule

C3_ResolvesAfterRetries ==
    /\ pc[TheLoad] = "imported" =>
         /\ retried[TheLoad] <= importRetries
         /\ pageCalls[TheLoad] = retried[TheLoad] + 1
    /\ loadedNow =>
         /\ imported[TheLoad] \in Modules
         /\ outcome[TheLoad] = Resolved(imported[TheLoad])
         /\ retried[TheLoad] <= importRetries
         /\ pageCalls[TheLoad] = retried[TheLoad] + 1
         /\ pageReloads = 0
         /\ \A k \in MapKeys(ledgerNow) :
              /\ MapHas(getMap(pageStorage, reloadStorageKey), k)
              /\ MapGet(ledgerNow, k) = MapGet(getMap(pageStorage, reloadStorageKey), k)

\* r = 2: two rejections, the third call resolved
C3_Witness ==
    /\ loadedNow
    /\ importRetries = 2
    /\ retried[TheLoad] = 2
    /\ pageCalls[TheLoad] = 3
    /\ lastRejected[TheLoad] \in Errors
    /\ outcome[TheLoad] = Resolved("ModuleB")

(***************************************************************************)
(* C4. With importRetries = r, a loader that keeps rejecting is called     *)
(* exactly r+1 times in a page lifetime before the reload-or-rethrow       *)
(* decision is taken, and the count starts again in the next lifetime:     *)
(* k failing page lifetimes call the loader k*(r+1) times in total.        *)
(***************************************************************************)
C4_ExactlyRPlus1Calls ==
    /\ pc[TheLoad] = "importing" => pageCalls[TheLoad] = retried[TheLoad] + 1
    /\ (pc[TheLoad] = "exhausted" \/ exhaustedNow) =>
         /\ retried[TheLoad] = importRetries
         /\ pageCalls[TheLoad] = importRetries + 1
         /\ (allRejected[TheLoad] /\ mounted = {TheLoad}) =>
              totalCalls[TheLoad] = lifetime * (importRetries + 1)

\* r = 2, third failing lifetime: 9 calls
C4_Witness ==
    /\ exhaustedNow
    /\ allRejected[TheLoad]
    /\ importRetries = 2
    /\ lifetime = 3
    /\ totalCalls[TheLoad] = 9

(***************************************************************************)
(* C5. With reload enabled (maxRetries > 0), when a wrapped load succeeds  *)
(* the ledger entry of its key is deleted: the key is absent from what     *)
(* read returns (not present with count 0); a failure of that loader in    *)
(* the following page lifetime then reloads again, with count 1.           *)
(***************************************************************************)
C5_SuccessDeletesEntry ==
    /\ (loadedNow /\ reloadBudget > 0) => ~MapHas(ledgerNow, keyOfLoad)
    /\ ( /\ previous[TheLoad] = "loaded"
         /\ reloadBudget > 0
         /\ exhaustedNow ) =>
           /\ outcome[TheLoad] = Resolved(Placeholder)
           /\ MapHas(ledgerNow, keyOfLoad)
           /\ MapGet(ledgerNow, keyOfLoad) = 1

\* the load succeeded after a reload this loader's failure had triggered
C5_Witness ==
    /\ loadedNow
    /\ reloadBudget > 0
    /\ ledgerAtStart = <<>>
    /\ totalReloads >= 1
    /\ previous[TheLoad] = "reloading"
    /\ MapHas(getMap(pageStorage, reloadStorageKey), keyOfLoad)
    /\ ~MapHas(ledgerNow, keyOfLoad)

\* ... and the failure in the lifetime after the success reloaded again
C5_WitnessFreshBudget ==
    /\ previous[TheLoad] = "loaded"
    /\ totalReloads >= 2
    /\ reloadBudget = 1
    /\ exhaustedNow

(***************************************************************************)
(* C6. A persisted string that is not a serialized ledger (not JSON, JSON  *)
(* that is not an array, an array without any [string, number] pair) is    *)
(* read as the empty mapping; a wrapped load that then exhausts its        *)
(* retries behaves as with an empty ledger: with maxRetries >= 1 it sets   *)
(* the entry of its key to 1 and triggers a reload.                        *)
(***************************************************************************)
\* a [string, number] pair of a parsed text
IsPair(v) ==
    /\ v.type = "array"
    /\ Len(v.elems) >= 2
    /\ v.elems[1].type = "string"
    /\ v.elems[2].type = "number"

\* a string that is not JSON, JSON that is not an array, or an array with
\* elements none of which is a [string, number] pair
NotALedger(stored) ==
    /\ stored.has
    /\ LET r == JSONParse(stored.text) IN
       \/ ~r.ok
       \/ r.val.type # "array"
       \/ /\ r.val.elems # <<>>
          /\ \A i \in 1..Len(r.val.elems) : ~IsPair(r.val.elems[i])

C6_CorruptReadsEmpty ==
    /\ \A k \in StorageKeys : NotALedger(storage[k]) => getMap(storage, k) = <<>>
    /\ ( /\ NotALedger(pageStorage[reloadStorageKey])
         /\ exhaustedNow
         /\ reloadBudget >= 1 ) =>
           /\ outcome[TheLoad] = Resolved(Placeholder)
           /\ pageReloads = 1
           /\ ledgerNow = <<Entry(keyOfLoad, 1)>>

\* the storage held the text invalid; the load failed and the page reloads
C6_Witness ==
    /\ storage0[reloadStorageKey] = Text(<<JUNK>>)
    /\ lifetime = 1
    /\ exhaustedNow
    /\ outcome[TheLoad] = Resolved(Placeholder)
    /\ pageReloads = 1
    /\ ledgerNow = <<Entry(keyOfLoad, 1)>>

(***************************************************************************)
(* C7. A wrapped load rejects if and only if the retries of its loader     *)
(* were exhausted and the ledger count of its key was already at least     *)
(* maxRetries; it then rejects with the error of the loader's last attempt *)
(* of that page lifetime.  In every other case it resolves, so neither the *)
(* error of an earlier attempt nor a parse error of the ledger leaves it.  *)
(***************************************************************************)
C7_RejectsIffBudgetExhausted ==
    /\ ~settled => outcome[TheLoad] = Pending
    /\ settled =>
         /\ outcome[TheLoad].kind \in {"resolved", "rejected"}
         /\ outcome[TheLoad].kind = "rejected" <=>
              /\ imported[TheLoad] = NoModule
              /\ retried[TheLoad] = importRetries
              /\ ledgerCount(pageStorage, keyOfLoad) >= reloadBudget
         /\ outcome[TheLoad].kind = "rejected" =>
              /\ outcome[TheLoad].v \in Errors
              /\ outcome[TheLoad].v = lastRejected[TheLoad]

\* budget 1 used up by the first lifetime; the second one retried twice and rejected
C7_Witness ==
    /\ settled
    /\ outcome[TheLoad] = Rejected("Error2")
    /\ importRetries = 2
    /\ retried[TheLoad] = 2
    /\ reloadBudget = 1
    /\ lifetime = 2
    /\ ledgerCount(pageStorage, keyOfLoad) = 1

(***************************************************************************)
(* C8. With forceReload: false and nothing persisted under the storage key *)
(* when the session starts, nothing is persisted under it after any        *)
(* sequence of wrapped loads, whatever their outcome: the session storage  *)
(* is never written.                                                       *)
(***************************************************************************)
C8_DisabledNeverWrites ==
    (reloadDisabled /\ storage0[reloadStorageKey] = Absent) =>
      /\ storage[reloadStorageKey] = Absent
      /\ storage = storage0

\* a load rejected in the first lifetime, and one resolved after a retry in the second
C8_Witness ==
    /\ reloadDisabled
    /\ storage0[reloadStorageKey] = Absent
    /\ lifetime = 2
    /\ previous[TheLoad] = "rejected"
    /\ loadedNow
    /\ retried[TheLoad] = 1

(***************************************************************************)
(* C9. After addFunction(key), read returns a mapping in which key has its *)
(* previous count plus 1 (1 if it was absent) and every other key has the  *)
(* count it had before, and no other key appears.                          *)
(***************************************************************************)
readBefore == getMap(before, lastOp.storageKey)
readAfter == getMap(storage, lastOp.storageKey)
\* the ledger held a serialized list of [string, number] pairs with distinct keys
wellFormedBefore ==
    /\ before[lastOp.storageKey].has
    /\ before[lastOp.storageKey].text = JSONStringify(readBefore)

C9_IncrementThenRead ==
    lastOp.op = "addFunction" =>
      /\ MapHas(readAfter, lastOp.functionName)
      /\ MapGet(readAfter, lastOp.functionName)
           = (IF MapHas(readBefore, lastOp.functionName)
              THEN MapGet(readBefore, lastOp.functionName) + 1 ELSE 1)
      /\ MapKeys(readAfter) = MapKeys(readBefore) \cup {lastOp.functionName}
      /\ \A k \in MapKeys(readBefore) \ {lastOp.functionName} :
           MapGet(readAfter, k) = MapGet(readBefore, k)

\* f went from 2 to 3 beside g, which kept its count; and g was added at 1 beside f
C9_Witness ==
    /\ lastOp = Op("addFunction", defaultStorageKey, "f")
    /\ wellFormedBefore
    /\ readBefore = <<Entry("g", 1), Entry("f", 2)>>
    /\ readAfter = <<Entry("g", 1), Entry("f", 3)>>

C9_WitnessAbsent ==
    /\ lastOp = Op("addFunction", defaultStorageKey, "g")
    /\ wellFormedBefore
    /\ readBefore = <<Entry("f", 2)>>
    /\ readAfter = <<Entry("f", 2), Entry("g", 1)>>

(***************************************************************************)
(* C10. After removeFunction(key), read returns a mapping in which key is  *)
(* absent and every other key has the count it had before; when key was    *)
(* already absent the mapping read is the same as before the call.         *)
(***************************************************************************)
C10_RemoveThenRead ==
    lastOp.op = "removeFunction" =>
      /\ ~MapHas(readAfter, lastOp.functionName)
      /\ MapKeys(readAfter) = MapKeys(readBefore) \ {lastOp.functionName}
      /\ \A k \in MapKeys(readAfter) : MapGet(readAfter, k) = MapGet(readBefore, k)
      /\ ~MapHas(readBefore, lastOp.functionName) => readAfter = readBefore

\* f was removed from beside g, which kept its count
C10_Witness ==
    /\ lastOp = Op("removeFunction", defaultStorageKey, "f")
    /\ wellFormedBefore
    /\ readBefore = <<Entry("f", 1), Entry("g", 2)>>
    /\ readAfter = <<Entry("g", 2)>>

\* the key was absent: the call went through and the mapping is unchanged
C10_WitnessAbsent ==
    /\ lastOp = Op("removeFunction", customStorageKey, "f")
    /\ wellFormedBefore
    /\ readBefore = <<Entry("g", 2)>>
    /\ readAfter = readBefore

(***************************************************************************)
(* C11. Ledgers bound to different storage keys are independent: what the  *)
(* factory's ledger does changes only the value under its own storage key, *)
(* the reload decision depends on the count under that key alone, whatever *)
(* another storage key holds, and a ledger bound to a key observes what an *)
(* earlier ledger bound to the same key wrote.                             *)
(***************************************************************************)
configuredStorageKey ==
    IF configInit.forceReload.kind = "object"
       /\ configInit.forceReload.storageKey # Omitted
    THEN configInit.forceReload.storageKey
    ELSE defaultStorageKey
otherStorageKeys == StorageKeys \ {configuredStorageKey}
ownCountAtPageStart ==
    MapGetOr0(getMapOf(pageStorage[configuredStorageKey]).map, keyOfLoad)

C11_StorageKeysIndependent ==
    /\ \A k \in otherStorageKeys : storage[k] = storage0[k]
    /\ exhaustedNow =>
         (settledAs(outcome[TheLoad]) = "reloading"
            <=> ownCountAtPageStart < reloadBudget)
    /\ previous[TheLoad] = "reloading" =>
         MapHas(getMapOf(pageStorage[configuredStorageKey]).map, keyOfLoad)

\* the other storage key holds a count that has used up the budget, the
\* factory's own key holds none: the load reloads all the same, and the
\* ledger of the next lifetime finds the count the first one wrote
C11_Witness ==
    /\ configuredStorageKey = customStorageKey
    /\ reloadBudget = 1
    /\ getMap(storage0, defaultStorageKey) = <<Entry("f", 1)>>
    /\ ledgerAtStart = <<>>
    /\ lifetime = 2
    /\ previous[TheLoad] = "reloading"
    /\ exhaustedNow
    /\ settledAs(outcome[TheLoad]) = "rejected"
    /\ ownCountAtPageStart = 1
    /\ storage[defaultStorageKey] = storage0[defaultStorageKey]

(***************************************************************************)
(* C12. Round trip: a mapping with distinct string keys and integer counts *)
(* persisted with save and read back with getMap is the same mapping, with *)
(* the same keys, counts and order; so is the mapping the latest           *)
(* addFunction or removeFunction saved.                                    *)
(***************************************************************************)
IntegerCounts == -1..(MaxStoredCount + 1)
WellFormedMappings ==
    {<<>>}
    \cup {<<Entry(k, n)>> : k \in FunctionStrings, n \in IntegerCounts}
    \cup {m \in {<<Entry(k1, n1), Entry(k2, n2)>> :
                   k1 \in FunctionStrings, k2 \in FunctionStrings,
                   n1 \in IntegerCounts, n2 \in IntegerCounts} :
            m[1].key # m[2].key}
\* the mapping the latest call handed to save
savedByLastOp ==
    IF lastOp.op = "addFunction"
    THEN MapSet(readBefore, lastOp.functionName,
                MapGetOr0(readBefore, lastOp.functionName) + 1)
    ELSE MapDelete(readBefore, lastOp.functionName)

C12_SaveThenGetMap ==
    lastOp # NoOp =>
      /\ readAfter = savedByLastOp
      /\ \A m \in WellFormedMappings :
           getMap(save(storage, lastOp.storageKey, m), lastOp.storageKey) = m

\* a mapping of two keys was saved over a value the ledger did not write, and
\* read back as it was saved
C12_Witness ==
    /\ lastOp = Op("addFunction", defaultStorageKey, "f")
    /\ ~wellFormedBefore
    /\ savedByLastOp = <<Entry("g", 1), Entry("f", 1)>>
    /\ readAfter = <<Entry("g", 1), Entry("f", 1)>>

(***************************************************************************)
(* C15. Every count of a mapping getMap returns is a non-negative integer, *)
(* whatever string was persisted, and the reload decision is never taken   *)
(* on a negative count.  Stated for the ledger a load that exhausted its   *)
(* retries decided on.  The code keeps every pair whose second element is  *)
(* a number, so a persisted [["f",-1]] is read as the count -1.            *)
(***************************************************************************)
countsOf(m) == {m[i].count : i \in 1..Len(m)}
ledgerDecidedOn == getMapOf(pageStorage[configuredStorageKey]).map

C15_CountsNonNegative ==
    exhaustedNow =>
      /\ \A n \in countsOf(ledgerDecidedOn) : n \in Nat
      /\ MapGetOr0(ledgerDecidedOn, keyOfLoad) >= 0

(***************************************************************************)
(* C16. A persisted array that mixes [string, number] pairs with other     *)
(* elements is read as exactly its pairs, in their order: the read does    *)
(* not throw, logs nothing and is not empty, and the reload decision is    *)
(* taken on the count of the pair.                                         *)
(***************************************************************************)
\* of a parsed value r: it is an array with a pair and with another element
isMixedArray(r) ==
    /\ r.ok
    /\ r.val.type = "array"
    /\ \E i \in 1..Len(r.val.elems) : IsPair(r.val.elems[i])
    /\ \E i \in 1..Len(r.val.elems) : ~IsPair(r.val.elems[i])
pairsOf(r) == SelectSeq(r.val.elems, IsPair)
\* the pairs as a mapping, when no key occurs twice among them
mappingOfPairs(r) ==
    [i \in 1..Len(pairsOf(r)) |->
        Entry(pairsOf(r)[i].elems[1].s, pairsOf(r)[i].elems[2].n)]
distinctKeys(m) == \A i, j \in 1..Len(m) : m[i].key = m[j].key => i = j

C16_MalformedElementsDropped ==
    /\ \A k \in StorageKeys : \A r \in {JSONParse(storage[k].text)} :
         ( /\ storage[k].has
           /\ isMixedArray(r)
           /\ distinctKeys(mappingOfPairs(r)) ) =>
             /\ getMapOf(storage[k]) = [map |-> mappingOfPairs(r), threw |-> FALSE]
             /\ getMap(storage, k) # <<>>
    /\ \A r \in {JSONParse(pageStorage[configuredStorageKey].text)} :
         ( /\ pageStorage[configuredStorageKey].has
           /\ isMixedArray(r)
           /\ exhaustedNow ) =>
             /\ \A i \in 1..Len(effects) : effects[i] # LogParseError(TheLoad)
             /\ settledAs(outcome[TheLoad]) = "reloading"
                  <=> MapGetOr0(mappingOfPairs(r), keyOfLoad) < reloadBudget

\* the storage held [["f",1],5]: with the budget 1 the failed load rejects,
\* the pair having been read
C16_Witness ==
    /\ pageStorage[configuredStorageKey]
         = Text(<<LB, LB, STR("f"), COMMA, NUM(1), RB, COMMA, NUM(5), RB>>)
    /\ reloadBudget = 1
    /\ exhaustedNow
    /\ settledAs(outcome[TheLoad]) = "rejected"
    /\ storage = pageStorage

\* the storage held [["f","x"],["g",2]]: the load of f succeeds and its
\* removeFunction writes back the pair of g alone
C16_WitnessWrongType ==
    /\ pageStorage[configuredStorageKey]
         = Text(<<LB, LB, STR("f"), COMMA, STR("x"), RB, COMMA,
                      LB, STR("g"), COMMA, NUM(2), RB, RB>>)
    /\ loadedNow
    /\ ledgerNow = <<Entry("g", 2)>>

(***************************************************************************)
(* C17. What is logged to console.error in a page lifetime.                *)
(***************************************************************************)
RECURSIVE timesIn(_, _)
timesIn(seq, e) ==
    IF seq = <<>> THEN 0
    ELSE (IF Head(seq) = e THEN 1 ELSE 0) + timesIn(Tail(seq), e)
\* the reads of the ledger the lazy callback of the load made when it settled:
\* the decision and addFunction in the reload branch, the decision alone when
\* it rejects, removeFunction when it loaded and reloading is enabled
readsOfLoad ==
    CASE settledAs(outcome[TheLoad]) = "reloading" -> 2
      [] settledAs(outcome[TheLoad]) = "rejected" -> 1
      [] settledAs(outcome[TheLoad]) = "loaded" -> (IF reloadBudget > 0 THEN 1 ELSE 0)
      [] OTHER -> 0
valueRead == pageStorage[configuredStorageKey]
\* a string that is not empty and that JSON.parse rejects
isInvalidJSON(stored) ==
    stored.has /\ stored.text # <<>> /\ ~JSONParse(stored.text).ok
importErrorsLogged == timesIn(effects, LogImportError(TheLoad))
parseErrorsLogged == timesIn(effects, LogParseError(TheLoad))

\* C17 as stated: a read of a value that is present and is not a ledger
\* (invalid JSON, or JSON that is not an array of pairs) logs the anomaly and
\* returns the empty mapping, and every rejected attempt is logged once.
C17_EveryAnomalyLogged ==
    /\ NotALedger(valueRead) => getMapOf(valueRead).map = <<>>
    /\ (settled /\ readsOfLoad > 0 /\ NotALedger(valueRead)) => parseErrorsLogged > 0
    /\ importErrorsLogged = pageRejections[TheLoad]

\* C17 as the code has it: a read logs, once, exactly when the value is a
\* non-empty string that JSON.parse rejects; JSON of another shape, and the
\* empty string, read as the empty mapping without a log.  Every rejected
\* attempt of the loader, the last one included, is logged exactly once.
C17_ParseErrorsLogged ==
    /\ NotALedger(valueRead) => getMapOf(valueRead).map = <<>>
    /\ settled =>
         parseErrorsLogged = (IF isInvalidJSON(valueRead) THEN readsOfLoad ELSE 0)
    /\ importErrorsLogged = pageRejections[TheLoad]
    /\ exhaustedNow => importErrorsLogged = importRetries + 1

\* the storage held {}: both reads of the reload branch returned the empty
\* mapping and logged nothing, the two rejected attempts were logged
C17_Witness ==
    /\ valueRead = Text(<<LBRACE, RBRACE>>)
    /\ NotALedger(valueRead)
    /\ settledAs(outcome[TheLoad]) = "reloading"
    /\ parseErrorsLogged = 0
    /\ importRetries = 1
    /\ importErrorsLogged = 2

\* the storage held the text invalid: the decision that rejects logged once
C17_WitnessInvalid ==
    /\ valueRead = Text(<<JUNK>>)
    /\ reloadBudget = 0
    /\ settledAs(outcome[TheLoad]) = "rejected"
    /\ parseErrorsLogged = 1

(***************************************************************************)
(* C14. A load that exhausted its retries while the count of its key was   *)
(* below maxRetries: the entry is raised by exactly 1 and written to the   *)
(* storage, then the page reload is triggered, once, then the load         *)
(* resolves with the placeholder; nothing is written after the reload was  *)
(* issued.                                                                 *)
(***************************************************************************)
positionsOf(e) == {i \in 1..Len(effects) : effects[i] = e}
belowBudget == ownCountAtPageStart < reloadBudget
ledgerRaisedByOne ==
    getMapOf(storage[configuredStorageKey]).map
      = MapSet(ledgerDecidedOn, keyOfLoad, ownCountAtPageStart + 1)

C14_IncrementThenReloadThenPlaceholder ==
    (exhaustedNow /\ belowBudget) =>
      /\ ledgerRaisedByOne
      /\ storage[configuredStorageKey]
           = Text(JSONStringify(getMapOf(storage[configuredStorageKey]).map))
      /\ pageReloads = 1
      /\ outcome[TheLoad] = Resolved(Placeholder)
      /\ \E w, r, p \in 1..Len(effects) :
           /\ positionsOf(SetItem(TheLoad)) = {w}
           /\ positionsOf(Reload(TheLoad)) = {r}
           /\ positionsOf(ResolvePlaceholder(TheLoad)) = {p}
           /\ w < r
           /\ r < p

\* the count of f was 1 of 2 beside g: it was written as 2, then the page
\* reloaded, then the load resolved with the placeholder
C14_Witness ==
    /\ exhaustedNow
    /\ reloadBudget = 2
    /\ ledgerDecidedOn = <<Entry("g", 2), Entry("f", 1)>>
    /\ ledgerNow = <<Entry("g", 2), Entry("f", 2)>>
    /\ effects = <<LogImportError(TheLoad), SetItem(TheLoad), Reload(TheLoad),
                   ResolvePlaceholder(TheLoad)>>
    /\ outcome[TheLoad] = Resolved(Placeholder)

(***************************************************************************)
(* C18. Within one invocation of a wrapped load the attempts follow one    *)
(* another: at most one call of the loader is in flight, every call but    *)
(* the one in flight has rejected or is the one that resolved, and after   *)
(* a call resolved none is in flight and none was started.                 *)
(***************************************************************************)
resolvedCalls(l) == IF imported[l] # NoModule THEN 1 ELSE 0

C18_AttemptsSequential ==
    \A l \in Loads :
      /\ inFlight[l] \in {0, 1}
      /\ inFlight[l] = 1 <=> pc[l] = "importing"
      /\ pageCalls[l] = pageRejections[l] + resolvedCalls(l) + inFlight[l]
      /\ imported[l] # NoModule => inFlight[l] = 0

\* the third attempt is in flight, alone, after two attempts rejected
C18_Witness ==
    /\ pageCalls[TheLoad] = 3
    /\ pageRejections[TheLoad] = 2
    /\ inFlight[TheLoad] = 1
    /\ pc[TheLoad] = "importing"

\* the third attempt resolved: no call is in flight and the load settled
C18_WitnessResolved ==
    /\ pageCalls[TheLoad] = 3
    /\ pageRejections[TheLoad] = 2
    /\ imported[TheLoad] # NoModule
    /\ inFlight[TheLoad] = 0
    /\ settled

(***************************************************************************)
(* C19. On a ledger that was empty when the session started and that only *)
(* the factory writes, with the reload budget m, every key of the ledger   *)
(* has a count in 1..m: no entry of 0 and none above m, also when several  *)
(* loads of the same key fail in one page lifetime.  Hence the factory     *)
(* triggers at most m reloads for a key between two removals of the key.   *)
(***************************************************************************)
ownLedger == getMapOf(storage[configuredStorageKey]).map
startedEmpty == getMapOf(storage0[configuredStorageKey]).map = <<>>
sameKeyLoads == \A l, k \in Loads : functionString[l] = functionString[k]

C19_CountsWithinBudget ==
    startedEmpty =>
      /\ \A i \in 1..Len(ownLedger) : ownLedger[i].count \in 1..reloadBudget
      /\ \A k \in FunctionStrings : sinceRemoval[k] <= reloadBudget
      /\ \A k \in FunctionStrings :
           ~MapHas(ownLedger, k) => sinceRemoval[k] = 0

\* both loads of the key f failed in the first page lifetime and both
\* reloaded: the count is 2, the budget
C19_Witness ==
    /\ startedEmpty
    /\ sameKeyLoads
    /\ lifetime = 1
    /\ reloadBudget = 2
    /\ \A l \in Loads : pc[l] = "settled" /\ settledAs(outcome[l]) = "reloading"
    /\ pageReloads = 2
    /\ ownLedger = <<Entry("f", 2)>>
    /\ sinceRemoval["f"] = 2

\* the budget is used up: a load of the key fails and rejects, the count stays
C19_WitnessRejects ==
    /\ startedEmpty
    /\ reloadBudget = 1
    /\ lifetime = 2
    /\ ownLedger = <<Entry("f", 1)>>
    /\ \E l \in Loads : pc[l] = "settled" /\ settledAs(outcome[l]) = "rejected"

(***************************************************************************)
(* C20. Loads of distinct keys that settle in one page lifetime, in any    *)
(* interleaving, lose no update of the ledger: after a load settled, its   *)
(* key has the count of the page start plus 1 when the load reloaded, is   *)
(* absent when the load succeeded (reloading enabled), and is as it was    *)
(* when the load rejected.                                                 *)
(***************************************************************************)
distinctKeyLoads == \A l, k \in Loads : functionString[l] = functionString[k] => l = k
ledgerAtPageStart == getMapOf(pageStorage[configuredStorageKey]).map
entryOf(m, k) == IF MapHas(m, k) THEN <<MapGet(m, k)>> ELSE <<>>

C20_NoLostUpdate ==
    distinctKeyLoads =>
      \A l \in Loads :
        pc[l] = "settled" =>
          CASE settledAs(outcome[l]) = "reloading" ->
                 entryOf(ownLedger, functionString[l])
                   = <<MapGetOr0(ledgerAtPageStart, functionString[l]) + 1>>
            [] settledAs(outcome[l]) = "loaded" /\ reloadBudget > 0 ->
                 entryOf(ownLedger, functionString[l]) = <<>>
            [] OTHER ->
                 entryOf(ownLedger, functionString[l])
                   = entryOf(ledgerAtPageStart, functionString[l])

\* the load of f reloaded and the load of g succeeded, f settling last: f
\* went from 1 to 2 and g was removed
C20_Witness ==
    /\ distinctKeyLoads
    /\ ledgerAtPageStart = <<Entry("g", 1), Entry("f", 1)>>
    /\ \A l \in Loads : pc[l] = "settled"
    /\ settledAs(outcome[1]) = "reloading"
    /\ settledAs(outcome[2]) = "loaded"
    /\ effects[Len(effects)] = ResolvePlaceholder(1)
    /\ ownLedger = <<Entry("f", 2)>>

\* both loads reloaded from an empty ledger: both keys are counted
C20_WitnessBothReload ==
    /\ distinctKeyLoads
    /\ ledgerAtPageStart = <<>>
    /\ \A l \in Loads : pc[l] = "settled" /\ settledAs(outcome[l]) = "reloading"
    /\ ownLedger = <<Entry("g", 1), Entry("f", 1)>>

(***************************************************************************)
(* C13. The library cannot reload forever: with a fixed set of loaders     *)
(* rendered in every page lifetime, each always failing or always          *)
(* succeeding, a page lifetime is eventually reached in which every load   *)
(* settled and no reload was triggered.  It fails for two loaders with the *)
(* same source text, one succeeding and one failing: the success removes   *)
(* the count of the shared key in every lifetime and the failure, settling *)
(* after it, finds no count and reloads.                                   *)
(***************************************************************************)
quietPage == (\A l \in mounted : pc[l] = "settled") /\ pageReloads = 0

C13_EventuallyNoReload == <>quietPage

(***************************************************************************)
(* C21. After an addFunction or a removeFunction, whatever the storage     *)
(* held before (nothing, a text that is not JSON, JSON of another shape,   *)
(* an array with other elements or with a key twice), the value under the  *)
(* storage key is present and is the serialization of a list of            *)
(* [string, number] pairs and of nothing else, no key occurring twice, and *)
(* a read returns exactly these pairs, which are the mapping the call      *)
(* saved.                                                                  *)
(***************************************************************************)
writtenValue == storage[lastOp.storageKey]
valueBefore == before[lastOp.storageKey]
\* of a parsed value r: an array of two-element [string, number] arrays
isListOfPairs(r) ==
    /\ r.ok
    /\ r.val.type = "array"
    /\ \A i \in 1..Len(r.val.elems) :
         IsPair(r.val.elems[i]) /\ Len(r.val.elems[i].elems) = 2

C21_WitnessDuplicate ==
    /\ lastOp = Op("removeFunction", defaultStorageKey, "g")
    /\ valueBefore = Text(<<LB, LB, STR("f"), COMMA, NUM(1), RB, COMMA,
                                LB, STR("f"), COMMA, NUM(2), RB, RB>>)
    /\ writtenValue = Text(<<LB, LB, STR("f"), COMMA, NUM(2), RB, RB>>)

\* the storage held nothing: removeFunction wrote the empty list []
C21_WitnessAbsent ==
    /\ lastOp = Op("removeFunction", defaultStorageKey, "f")
    /\ valueBefore = Absent
    /\ writtenValue = Text(<<LB, RB>>)
====
